---- MODULE Spec2Model ----
(***************************************************************************)
(* Habit tracker: the habits and completions tables (db.py), the Habit     *)
(* record and its streak methods (habit.py) and the Tracker operations     *)
(* over them (tracker.py).  Dates are day ordinals counted from the first  *)
(* of January of BaseYear; the tables hold them as ISO text, modelled as   *)
(* the triple <<year, month, day>>.                                        *)
(***************************************************************************)
EXTENDS Integers, Sequences, FiniteSets, TLC

VARIABLES
    habits,       \* table habits: id -> row (db.py 28-36)
    completions,  \* table completions: rows [habit_id, completion_date] in insertion order (db.py 39-45)
    seq,          \* AUTOINCREMENT high-water mark of habits.id (db.py 29)
    today,        \* date.today(), a day ordinal
    ticks,        \* number of times the calendar has advanced
    last,         \* the last event: the operation called (or the calendar
                  \* advancing), the name passed, whether a new longest
                  \* streak was passed, and the message printed
    obj,          \* a Habit object held by the caller (habit.py 5-11)
    trend         \* the window asked of the last trend calculation and the
                  \* mapping it returned, as <<key, value>> pairs in dict order

vars == <<habits, completions, seq, today, ticks, last, obj, trend>>

----------------------------------------------------------------------------
(* Bounds of the exploration *)

\* how many times the calendar advances
MaxTicks == 2
\* largest value offered to edit_habit(new_longest_streak=...)
MaxLongest == 2

\* how many times the calendar advances where the days between calls matter
\* little (Habit objects, the store)
MaxDays == 1

Names == {"a", "b"}
\* day steps of the calendar: 1 (daily period), 7 (weekly), 30 (monthly);
\* their sums give the gaps 0, 1, 2, 7, 8, 30, 31, ...
Jumps == {1, 7, 30}
\* values offered as a periodicity; "yearly" is outside the accepted three
PeriodicityInputs == {"daily", "weekly", "monthly", "yearly"}

----------------------------------------------------------------------------
(* Calendar: datetime.date as used by the program *)

BaseYear == 2025

IsLeap(y) == (y % 4 = 0 /\ y % 100 # 0) \/ y % 400 = 0

DaysInMonth(y, m) ==
    IF m = 2 THEN (IF IsLeap(y) THEN 29 ELSE 28)
    ELSE IF m \in {4, 6, 9, 11} THEN 30 ELSE 31

RECURSIVE Civil(_, _, _)
Civil(y, m, n) ==
    IF n < DaysInMonth(y, m) THEN <<y, m, n + 1>>
    ELSE IF m = 12 THEN Civil(y + 1, 1, n - DaysInMonth(y, m))
    ELSE Civil(y, m + 1, n - DaysInMonth(y, m))

\* date.isoformat() / strftime('%Y-%m-%d'): the text of a date
isoformat(d) == Civil(BaseYear, 1, d)

RECURSIVE DaysBefore(_, _)
DaysBefore(y, m) ==
    IF y = BaseYear /\ m = 1 THEN 0
    ELSE IF m = 1 THEN DaysBefore(y - 1, 12) + DaysInMonth(y - 1, 12)
    ELSE DaysBefore(y, m - 1) + DaysInMonth(y, m - 1)

\* whether a text is a calendar date date.fromisoformat accepts
IsIsoDate(t) ==
    /\ Len(t) = 3
    /\ t[1] >= BaseYear
    /\ t[2] \in 1..12
    /\ t[3] \in 1..DaysInMonth(t[1], t[2])

\* date.fromisoformat(text)
fromisoformat(t) == DaysBefore(t[1], t[2]) + t[3] - 1

----------------------------------------------------------------------------
(* Habit (habit.py) *)

\* Python None for last_completed
NoDate == -1
\* SQL NULL in a TEXT column
NULL == <<>>

Habit(name, periodicity, streak, last_completed, streak_saves, longest_streak) ==
    [name |-> name, periodicity |-> periodicity, streak |-> streak,
     last_completed |-> last_completed, streak_saves |-> streak_saves,
     longest_streak |-> longest_streak]

\* what get_habit returns for a name that is not stored
NoHabit == Habit("", "", 0, NoDate, 0, 0)

get_period_delta(h) ==
    IF h.periodicity = "daily" THEN 1
    ELSE IF h.periodicity = "weekly" THEN 7
    ELSE IF h.periodicity = "monthly" THEN 30
    ELSE 1

\* faulty variant: the lapse test taken with >= instead of >
Lapsed_AtBoundary(h, day) ==
    h.last_completed # NoDate /\ day - h.last_completed >= get_period_delta(h)

\* the lapse test of streak_reset
Lapsed(h, day) ==
    h.last_completed # NoDate /\ day - h.last_completed > get_period_delta(h)

\* faulty variant: the reset also clears the longest streak
streak_reset_ClearsLongest(h, day) ==
    IF Lapsed(h, day) THEN [h EXCEPT !.streak = 0, !.longest_streak = 0] ELSE h

\* faulty variant: the reset never happens
streak_reset_Never(h, day) == h

streak_reset(h, day) ==
    IF Lapsed(h, day) THEN [h EXCEPT !.streak = 0] ELSE h

\* faulty variant: the eligibility test taken with > instead of >=
Eligible_Strict(h, day) ==
    h.last_completed = NoDate \/ day - h.last_completed > get_period_delta(h)

\* faulty variant: every call is taken as a new completion
Eligible_Always(h, day) == TRUE

\* the eligibility test of increment
Eligible(h, day) ==
    h.last_completed = NoDate \/ day - h.last_completed >= get_period_delta(h)

\* faulty variant: the longest streak is not raised with the streak
increment_KeepLongest(h, day) ==
    IF Eligible(h, day)
    THEN [h EXCEPT !.streak = h.streak + 1, !.last_completed = day]
    ELSE h

\* faulty variant: a refused completion still stamps last_completed
increment_AlwaysStamp(h, day) ==
    IF Eligible(h, day)
    THEN LET s == h.streak + 1
         IN  [h EXCEPT !.streak = s,
                       !.last_completed = day,
                       !.longest_streak = IF s > h.longest_streak THEN s
                                          ELSE h.longest_streak]
    ELSE [h EXCEPT !.last_completed = day]

\* faulty variant: the completion is stamped with the day after
increment_StampNext(h, day) ==
    IF Eligible(h, day)
    THEN LET s == h.streak + 1
         IN  [h EXCEPT !.streak = s,
                       !.last_completed = day + 1,
                       !.longest_streak = IF s > h.longest_streak THEN s
                                          ELSE h.longest_streak]
    ELSE h

increment(h, day) ==
    IF Eligible(h, day)
    THEN LET s == h.streak + 1
         IN  [h EXCEPT !.streak = s,
                       !.last_completed = day,
                       !.longest_streak = IF s > h.longest_streak THEN s
                                          ELSE h.longest_streak]
    ELSE h

\* faulty variant: a save is spent but last_completed is not moved
streak_save_NoStamp(h, day) ==
    IF h.streak_saves > 0
    THEN [h EXCEPT !.streak_saves = h.streak_saves - 1]
    ELSE h

\* faulty variant: a save is spent whether or not one is left
streak_save_Unchecked(h, day) ==
    [h EXCEPT !.streak_saves = h.streak_saves - 1, !.last_completed = day]

streak_save(h, day) ==
    IF h.streak_saves > 0
    THEN [h EXCEPT !.streak_saves = h.streak_saves - 1, !.last_completed = day]
    ELSE h

\* faulty variant: the new periodicity is stored without the membership test
change_periodicity_Unchecked(h, new_periodicity) ==
    [h EXCEPT !.periodicity = new_periodicity]

change_periodicity(h, new_periodicity) ==
    IF new_periodicity \in {"daily", "weekly", "monthly"}
    THEN [h EXCEPT !.periodicity = new_periodicity]
    ELSE h

----------------------------------------------------------------------------
(* Tracker (tracker.py) over the tables *)

\* faulty variant: the column streak_saves defaults to 1
NewRow_OneSave(name, periodicity) ==
    [name |-> name, periodicity |-> periodicity, streak |-> 0,
     last_completed |-> NULL, streak_saves |-> 1, longest_streak |-> 0]

\* the row a successful INSERT INTO habits stores
NewRow(name, periodicity) ==
    [name |-> name, periodicity |-> periodicity, streak |-> 0,
     last_completed |-> NULL, streak_saves |-> 0, longest_streak |-> 0]

_habit_from_row(row) ==
    Habit(row.name, row.periodicity, row.streak,
          IF row.last_completed # NULL /\ IsIsoDate(row.last_completed)
          THEN fromisoformat(row.last_completed) ELSE NoDate,
          row.streak_saves, row.longest_streak)

IdsOf(table, name) == {id \in DOMAIN table : table[id].name = name}

Exists(table, name) == IdsOf(table, name) # {}

_get_habit_id(table, name) == CHOOSE id \in IdsOf(table, name) : TRUE

get_habit(table, name) ==
    IF Exists(table, name) THEN _habit_from_row(table[_get_habit_id(table, name)])
    ELSE NoHabit

\* the value sqlite3 binds for habit.last_completed
AdaptDate(d) == IF d = NoDate THEN NULL ELSE isoformat(d)

update_habit(table, h) ==
    [id \in DOMAIN table |->
        IF table[id].name = h.name
        THEN [table[id] EXCEPT !.streak = h.streak,
                               !.last_completed = AdaptDate(h.last_completed),
                               !.streak_saves = h.streak_saves,
                               !.longest_streak = h.longest_streak]
        ELSE table[id]]

\* the dates get_completion_history returns, in row order
RECURSIVE SelectDates(_, _)
SelectDates(rows, id) ==
    IF rows = <<>> THEN <<>>
    ELSE IF Head(rows).habit_id = id
         THEN <<fromisoformat(Head(rows).completion_date)>> \o SelectDates(Tail(rows), id)
         ELSE SelectDates(Tail(rows), id)

get_completion_history(table, rows, name) ==
    IF Exists(table, name) THEN SelectDates(rows, _get_habit_id(table, name))
    ELSE <<>>

\* whether get_completion_history raises ValueError: date.fromisoformat is
\* applied to every selected row outside any try
HistoryRaises(table, rows, name) ==
    /\ Exists(table, name)
    /\ \E i \in 1..Len(rows) :
          /\ rows[i].habit_id = _get_habit_id(table, name)
          /\ ~IsIsoDate(rows[i].completion_date)

\* UNIQUE(habit_id, completion_date): whether the INSERT raises IntegrityError
IsLogged(rows, id, text) ==
    \E i \in 1..Len(rows) : rows[i].habit_id = id /\ rows[i].completion_date = text

\* faulty variant: the table has no UNIQUE constraint
InsertCompletion_NoUnique(rows, id, text) ==
    Append(rows, [habit_id |-> id, completion_date |-> text])

\* faulty variant: INSERT OR REPLACE, the present row is dropped and a new
\* one is added at the end
InsertCompletion_Replace(rows, id, text) ==
    Append(SelectSeq(rows, LAMBDA r : ~(r.habit_id = id /\ r.completion_date = text)),
           [habit_id |-> id, completion_date |-> text])

\* INSERT INTO completions, skipped when the UNIQUE constraint refuses it
InsertCompletion(rows, id, text) ==
    IF IsLogged(rows, id, text) THEN rows
    ELSE Append(rows, [habit_id |-> id, completion_date |-> text])

\* faulty variant: UPDATE habits SET name=? without the WHERE clause
RenameRow_NoWhere(table, name, new_name) ==
    [id \in DOMAIN table |-> [table[id] EXCEPT !.name = new_name]]

\* UPDATE habits SET name=? WHERE name=?
RenameRow(table, name, new_name) ==
    [id \in DOMAIN table |->
        IF table[id].name = name THEN [table[id] EXCEPT !.name = new_name]
        ELSE table[id]]

\* UPDATE habits SET periodicity=? WHERE name=?
SetPeriodicity(table, name, periodicity) ==
    [id \in DOMAIN table |->
        IF table[id].name = name THEN [table[id] EXCEPT !.periodicity = periodicity]
        ELSE table[id]]

\* UPDATE habits SET longest_streak=? WHERE name=?
SetLongest(table, name, longest) ==
    [id \in DOMAIN table |->
        IF table[id].name = name THEN [table[id] EXCEPT !.longest_streak = longest]
        ELSE table[id]]

\* DELETE FROM habits WHERE name=?
DeleteRow(table, name) ==
    [id \in DOMAIN table \ IdsOf(table, name) |-> table[id]]

\* no trend has been calculated
NoTrend == [num |-> 0, items |-> <<>>]

\* the record of a call
Call(op, name, out, given) ==
    [op |-> op, name |-> name, given |-> given, out |-> out]

----------------------------------------------------------------------------
(* Analyse (analyse.py): trends over the completion history.  A returned   *)
(* dict is the sequence of its <<key, value>> items in dict order.          *)

\* date(d.year, d.month, 1)
MonthStart(d) ==
    LET c == isoformat(d) IN fromisoformat(<<c[1], c[2], 1>>)

\* d + relativedelta(months=k): the month moves by k, the day is kept or
\* clipped to the length of the month reached
AddMonths(d, k) ==
    LET c == isoformat(d)
        months == c[1] * 12 + (c[2] - 1) + k
        y == months \div 12
        m == (months % 12) + 1
        last_day == DaysInMonth(y, m)
    IN  fromisoformat(<<y, m, IF c[3] > last_day THEN last_day ELSE c[3]>>)

\* faulty variant: the window starts num_days before the end date
calculate_daily_trend_OffByOne(table, rows, end_date, habit_name, num_days) ==
    IF ~Exists(table, habit_name) THEN <<>>
    ELSE LET history == get_completion_history(table, rows, habit_name)
             start_date == end_date - num_days
         IN  [n \in 1..num_days |->
                LET day == start_date + (n - 1)
                IN  <<day, IF \E i \in 1..Len(history) : history[i] = day
                           THEN 1 ELSE 0>>]

\* faulty variant: the habit is not looked up first
calculate_daily_trend_NoLookup(table, rows, end_date, habit_name, num_days) ==
    LET history == get_completion_history(table, rows, habit_name)
        start_date == end_date - (num_days - 1)
    IN  [n \in 1..num_days |->
           LET day == start_date + (n - 1)
           IN  <<day, IF \E i \in 1..Len(history) : history[i] = day
                      THEN 1 ELSE 0>>]

calculate_daily_trend(table, rows, end_date, habit_name, num_days) ==
    IF ~Exists(table, habit_name) THEN <<>>
    ELSE LET history == get_completion_history(table, rows, habit_name)
             start_date == end_date - (num_days - 1)
         IN  [n \in 1..num_days |->
                LET day == start_date + (n - 1)
                IN  <<day, IF \E i \in 1..Len(history) : history[i] = day
                           THEN 1 ELSE 0>>]

\* faulty variant: the loop stops before the month of the end date
RECURSIVE MonthStarts_Short(_, _)
MonthStarts_Short(current_month_start, first_day_current_month) ==
    IF current_month_start < first_day_current_month
    THEN <<<<current_month_start, 0>>>>
         \o MonthStarts_Short(AddMonths(current_month_start, 1),
                              first_day_current_month)
    ELSE <<>>

\* the while loop: every month start up to the month of the end date, at 0
RECURSIVE MonthStarts(_, _)
MonthStarts(current_month_start, first_day_current_month) ==
    IF current_month_start < AddMonths(first_day_current_month, 1)
    THEN <<<<current_month_start, 0>>>>
         \o MonthStarts(AddMonths(current_month_start, 1), first_day_current_month)
    ELSE <<>>

\* trend[key] += 1 on a key the dict holds
Bump(items, key) ==
    [i \in DOMAIN items |->
        IF items[i][1] = key THEN <<key, items[i][2] + 1>> ELSE items[i]]

\* faulty variant: a completion is counted by its month alone
RECURSIVE CountMonths_NoWindow(_, _, _, _)
CountMonths_NoWindow(items, history, start_date, end_date) ==
    IF history = <<>> THEN items
    ELSE LET completion_date == Head(history)
             month_start == MonthStart(completion_date)
         IN  CountMonths_NoWindow(
                 IF \E i \in DOMAIN items : items[i][1] = month_start
                 THEN Bump(items, month_start) ELSE items,
                 Tail(history), start_date, end_date)

\* the for loop over the history of calculate_monthly_trend
RECURSIVE CountMonths(_, _, _, _)
CountMonths(items, history, start_date, end_date) ==
    IF history = <<>> THEN items
    ELSE LET completion_date == Head(history)
             month_start == MonthStart(completion_date)
         IN  CountMonths(
                 IF /\ start_date <= completion_date
                    /\ completion_date <= end_date
                    /\ \E i \in DOMAIN items : items[i][1] = month_start
                 THEN Bump(items, month_start) ELSE items,
                 Tail(history), start_date, end_date)

\* dict(sorted(trend.items())): the keys are distinct
Sorted(items) == SortSeq(items, LAMBDA a, b : a[1] < b[1])

calculate_monthly_trend(table, rows, end_date, habit_name, num_months) ==
    IF ~Exists(table, habit_name) THEN <<>>
    ELSE LET history == get_completion_history(table, rows, habit_name)
             first_day_current_month == MonthStart(end_date)
             start_date == AddMonths(first_day_current_month, -num_months)
         IN  Sorted(CountMonths(MonthStarts(start_date, first_day_current_month),
                                history, start_date, end_date))

\* date.weekday(): Monday is 0; the first of January of BaseYear is a Wednesday
weekday(d) == (d + 2) % 7

\* faulty variant: a completion after the end date is counted too
RECURSIVE CountWeeks_NoUpper(_, _, _, _)
CountWeeks_NoUpper(items, history, start_date, end_date) ==
    IF history = <<>> THEN items
    ELSE LET completion_date == Head(history)
             week_start == completion_date - weekday(completion_date)
         IN  CountWeeks_NoUpper(
                 IF start_date <= completion_date
                 THEN IF \E i \in DOMAIN items : items[i][1] = week_start
                      THEN Bump(items, week_start)
                      ELSE Append(items, <<week_start, 1>>)
                 ELSE items,
                 Tail(history), start_date, end_date)

\* the for loop over the history of calculate_weekly_trend: a defaultdict
\* takes a new key at the end and keeps the place of a key it holds
RECURSIVE CountWeeks(_, _, _, _)
CountWeeks(items, history, start_date, end_date) ==
    IF history = <<>> THEN items
    ELSE LET completion_date == Head(history)
             week_start == completion_date - weekday(completion_date)
         IN  CountWeeks(
                 IF start_date <= completion_date /\ completion_date <= end_date
                 THEN IF \E i \in DOMAIN items : items[i][1] = week_start
                      THEN Bump(items, week_start)
                      ELSE Append(items, <<week_start, 1>>)
                 ELSE items,
                 Tail(history), start_date, end_date)

calculate_weekly_trend(table, rows, end_date, habit_name, num_weeks) ==
    IF ~Exists(table, habit_name) THEN <<>>
    ELSE LET history == get_completion_history(table, rows, habit_name)
             start_date == end_date - 7 * num_weeks
         IN  CountWeeks(<<>>, history, start_date, end_date)

----------------------------------------------------------------------------
(* Operations *)

Init ==
    /\ habits = <<>>
    /\ completions = <<>>
    /\ seq = 0
    /\ today = 0
    /\ ticks = 0
    /\ last = Call("init", "", "", FALSE)
    /\ obj = NoHabit
    /\ trend = NoTrend

\* the calendar advances between calls
Tick(j) ==
    /\ ticks < MaxTicks
    /\ today' = today + j
    /\ ticks' = ticks + 1
    /\ last' = Call("tick", "", "", FALSE)
    /\ UNCHANGED <<habits, completions, seq, obj, trend>>

\* faulty variant: habits.name is not UNIQUE, the INSERT always succeeds
create_habit_NoUnique(name, periodicity) ==
    /\ habits' = (seq + 1 :> NewRow(name, periodicity)) @@ habits
    /\ seq' = seq + 1
    /\ last' = Call("create_habit", name, "created", FALSE)
    /\ UNCHANGED <<completions, today, ticks, obj, trend>>

\* faulty variant: habits.id without AUTOINCREMENT, the new id is the largest
\* id in the table plus one
create_habit_ReuseId(name, periodicity) ==
    /\ IF Exists(habits, name)
       THEN /\ last' = Call("create_habit", name, "already exists", FALSE)
            /\ UNCHANGED <<habits, seq>>
       ELSE LET largest == IF habits = <<>> THEN 0
                           ELSE CHOOSE id \in DOMAIN habits :
                                   \A other \in DOMAIN habits : other <= id
            IN  /\ habits' = (largest + 1 :> NewRow(name, periodicity)) @@ habits
                /\ seq' = seq + 1
                /\ last' = Call("create_habit", name, "created", FALSE)
    /\ UNCHANGED <<completions, today, ticks, obj, trend>>

create_habit(name, periodicity) ==
    /\ IF Exists(habits, name)
       THEN /\ last' = Call("create_habit", name, "already exists", FALSE)
            /\ UNCHANGED <<habits, seq>>
       ELSE /\ habits' = (seq + 1 :> NewRow(name, periodicity)) @@ habits
            /\ seq' = seq + 1
            /\ last' = Call("create_habit", name, "created", FALSE)
    /\ UNCHANGED <<completions, today, ticks, obj, trend>>

record_completion(name) ==
    /\ IF Exists(habits, name)
       THEN LET before == get_habit(habits, name)
                habit == increment(before, today)
                table == update_habit(habits, habit)
                habit_id == _get_habit_id(table, name)
            IN  /\ habits' = table
                /\ completions' = InsertCompletion(completions, habit_id,
                                                   isoformat(today))
                /\ last' = Call("record_completion", name,
                                IF Eligible(before, today) THEN "updated"
                                ELSE "already completed", FALSE)
       ELSE /\ last' = Call("record_completion", name, "not found", FALSE)
            /\ UNCHANGED <<habits, completions>>
    /\ UNCHANGED <<seq, today, ticks, obj, trend>>

\* get_habit, Habit.streak_reset, update_habit (test_tracker.py 235-237)
StreakReset(name) ==
    /\ Exists(habits, name)
    /\ LET before == get_habit(habits, name)
       IN  /\ habits' = update_habit(habits, streak_reset(before, today))
           /\ last' = Call("streak_reset", name,
                           IF Lapsed(before, today) THEN "reset" ELSE "", FALSE)
    /\ UNCHANGED <<completions, seq, today, ticks, obj, trend>>

\* get_habit, Habit.streak_save, update_habit
StreakSave(name) ==
    /\ Exists(habits, name)
    /\ LET before == get_habit(habits, name)
       IN  /\ habits' = update_habit(habits, streak_save(before, today))
           /\ last' = Call("streak_save", name,
                           IF before.streak_saves > 0 THEN "saved"
                           ELSE "no saves available", FALSE)
    /\ UNCHANGED <<completions, seq, today, ticks, obj, trend>>

\* faulty variant: habits.name is not UNIQUE, a rename always goes through
edit_habit_NoUnique(name, new_name, new_periodicity, new_longest_streak) ==
    /\ IF Exists(habits, name) /\ new_name # ""
       THEN /\ habits' = RenameRow(habits, name, new_name)
            /\ last' = Call("edit_habit", name, "updated", FALSE)
       ELSE /\ last' = Call("edit_habit", name, "not found", FALSE)
            /\ UNCHANGED habits
    /\ UNCHANGED <<completions, seq, today, ticks, obj, trend>>

\* new_name and new_periodicity: "" stands for None (both are falsy);
\* new_longest_streak: <<>> stands for None, <<v>> for the integer v
edit_habit(name, new_name, new_periodicity, new_longest_streak) ==
    /\ LET given == new_longest_streak # <<>>
       IN
       IF ~Exists(habits, name)
       THEN /\ last' = Call("edit_habit", name, "not found", given)
            /\ UNCHANGED habits
       ELSE IF new_name # "" /\ new_name # name /\ Exists(habits, new_name)
       THEN /\ last' = Call("edit_habit", name, "already exists", given)
            /\ UNCHANGED habits
       ELSE LET h0 == get_habit(habits, name)
                renamed == new_name # ""
                t1 == IF renamed THEN RenameRow(habits, name, new_name) ELSE habits
                h1 == IF renamed THEN [h0 EXCEPT !.name = new_name] ELSE h0
                okP == new_periodicity # ""
                       /\ new_periodicity \in {"daily", "weekly", "monthly"}
                t2 == IF okP THEN SetPeriodicity(t1, h1.name, new_periodicity) ELSE t1
                h2 == IF okP THEN [h1 EXCEPT !.periodicity = new_periodicity] ELSE h1
                okL == new_longest_streak # <<>> /\ new_longest_streak[1] >= 0
                t3 == IF okL THEN SetLongest(t2, h2.name, new_longest_streak[1]) ELSE t2
                h3 == IF okL THEN [h2 EXCEPT !.longest_streak = new_longest_streak[1]]
                      ELSE h2
            IN  /\ habits' = update_habit(t3, h3)
                /\ last' = Call("edit_habit", name, "updated", given)
    /\ UNCHANGED <<completions, seq, today, ticks, obj, trend>>

delete_habit(name) ==
    /\ habits' = DeleteRow(habits, name)
    /\ last' = Call("delete_habit", name,
                    IF Exists(habits, name) THEN "deleted" ELSE "not found", FALSE)
    /\ UNCHANGED <<completions, seq, today, ticks, obj, trend>>

\* values offered as new_longest_streak; -1 is refused
LongestInputs == {<<v>> : v \in -1..MaxLongest}

\* The table holds no habit under another name: Spec follows one habit
\* through its life (created under either name, renamed, edited, completed on
\* days 1, 7 and 30 apart).  edit_habit is called with a new name and/or a
\* new periodicity, or with a new longest streak; on a name that is not
\* stored it returns before it reads them, so one call stands for all.
Single(name) == DOMAIN habits \subseteq IdsOf(habits, name)

Next ==
    \/ \E j \in Jumps : Tick(j)
    \/ \E n \in Names, p \in PeriodicityInputs : Single(n) /\ create_habit(n, p)
    \/ \E n \in Names : record_completion(n)
    \/ \E n \in Names : StreakReset(n)
    \/ \E n \in Names : StreakSave(n)
    \/ \E n \in Names, m \in Names \cup {""}, p \in PeriodicityInputs \cup {""} :
          Exists(habits, n) /\ edit_habit(n, m, p, <<>>)
    \/ \E n \in Names, l \in LongestInputs :
          Exists(habits, n) /\ edit_habit(n, "", "", l)
    \/ \E n \in Names : ~Exists(habits, n) /\ edit_habit(n, "", "", <<>>)

Spec == Init /\ [][Next]_vars

----------------------------------------------------------------------------
(* Habit objects: the methods of habit.py called on an object the caller   *)
(* constructed, and the Tracker calls that load and store it               *)

\* largest number of streak saves a Habit is constructed with
MaxSaves == 2

\* Habit(name, periodicity, 1, last_completed, streak_saves, longest_streak)
\* as a caller may construct it
HabitInputs(periodicity) ==
    {Habit("a", periodicity, 1, lc, sv, l) :
        lc \in {NoDate, 0}, sv \in 0..MaxSaves, l \in 1..MaxLongest}

\* one habit is stored, and the caller holds a Habit object of its name
InitHabit ==
    /\ \E p \in PeriodicityInputs :
          /\ habits = (1 :> NewRow("a", p))
          /\ obj \in HabitInputs(p)
    /\ completions = <<>>
    /\ seq = 1
    /\ today = 0
    /\ ticks = 0
    /\ last = Call("init", "", "", FALSE)
    /\ trend = NoTrend

\* habit.streak_save()
Habit_streak_save ==
    /\ obj' = streak_save(obj, today)
    /\ last' = Call("Habit.streak_save", obj.name,
                    IF obj.streak_saves > 0 THEN "saved"
                    ELSE "no saves available", FALSE)
    /\ UNCHANGED <<habits, completions, seq, today, ticks, trend>>

\* habit.change_periodicity(new_periodicity)
Habit_change_periodicity(new_periodicity) ==
    /\ obj' = change_periodicity(obj, new_periodicity)
    /\ last' = Call("Habit.change_periodicity", obj.name,
                    IF new_periodicity \in {"daily", "weekly", "monthly"}
                    THEN "updated" ELSE "invalid", FALSE)
    /\ UNCHANGED <<habits, completions, seq, today, ticks, trend>>

\* tracker.update_habit(habit)
Tracker_update_habit ==
    /\ habits' = update_habit(habits, obj)
    /\ last' = Call("update_habit", obj.name, "", FALSE)
    /\ UNCHANGED <<completions, seq, today, ticks, obj, trend>>

\* habit = tracker.get_habit(name)
Tracker_get_habit(name) ==
    /\ Exists(habits, name)
    /\ obj' = get_habit(habits, name)
    /\ last' = Call("get_habit", name, "", FALSE)
    /\ UNCHANGED <<habits, completions, seq, today, ticks, trend>>

NextHabit ==
    \/ ticks < MaxDays /\ Tick(7)
    \/ Habit_streak_save
    \/ \E p \in PeriodicityInputs : Habit_change_periodicity(p)
    \/ Tracker_update_habit
    \/ \E n \in Names : Tracker_get_habit(n)
    \/ \E n \in Names, p \in PeriodicityInputs : edit_habit(n, "", p, <<>>)

SpecHabit == InitHabit /\ [][NextHabit]_vars

----------------------------------------------------------------------------
(* The store: habits created, renamed, completed and deleted side by side  *)

\* how many habits are ever inserted (habits.id is never reused)
MaxId == 2

NextStore ==
    \/ ticks < MaxDays /\ Tick(1)
    \/ \E n \in Names, p \in {"daily", "weekly"} :
          (seq < MaxId \/ Exists(habits, n)) /\ create_habit(n, p)
    \/ \E n \in Names : record_completion(n)
    \/ \E n \in Names, m \in Names, p \in {"", "weekly"} : edit_habit(n, m, p, <<>>)
    \/ \E n \in Names : delete_habit(n)

SpecStore == Init /\ [][NextStore]_vars

----------------------------------------------------------------------------
(* The life of a name: a habit created, completed, reset, edited, deleted  *)
(* and created again under the same or the other name                      *)

NextLife ==
    \/ \E j \in {1, 7} : Tick(j)
    \/ \E n \in Names, p \in {"daily", "weekly"} :
          /\ seq < MaxId \/ Exists(habits, n)
          /\ Single(n) /\ create_habit(n, p)
    \/ \E n \in Names : record_completion(n)
    \/ \E n \in Names : StreakReset(n)
    \/ \E n \in Names : StreakSave(n)
    \/ \E n \in Names, m \in Names \cup {""}, p \in {"", "daily", "weekly"} :
          Exists(habits, n) /\ edit_habit(n, m, p, <<>>)
    \/ \E n \in Names : delete_habit(n)

SpecLife == Init /\ [][NextLife]_vars

----------------------------------------------------------------------------
(* Trends: the calculations of analyse.py over a table of completions      *)

\* largest number of rows of the completions table
MaxFacts == 2
\* largest num_days asked of calculate_daily_trend
MaxWindow == 3
\* largest num_months asked of calculate_monthly_trend
MaxMonths == 3
\* largest num_weeks asked of calculate_weekly_trend
MaxWeeks == 3

\* the days on which a trend is asked: the last day of a year and the middle
\* of the month after it
RefDates == {fromisoformat(<<2025, 12, 31>>), fromisoformat(<<2026, 1, 15>>)}

\* the completion dates of the stored habit: around the month and year
\* boundaries and both sides of the second reference day
FactTexts ==
    {<<2025, 11, 30>>, <<2025, 12, 1>>, <<2025, 12, 31>>, <<2026, 1, 1>>,
     <<2026, 1, 14>>, <<2026, 1, 15>>, <<2026, 1, 16>>}

\* rows of habit 1 (stored) and of habit 2 (deleted, its rows left behind)
FactInputs ==
    {[habit_id |-> 1, completion_date |-> t] : t \in FactTexts}
    \cup {[habit_id |-> 2, completion_date |-> t] :
             t \in {<<2025, 12, 31>>, <<2026, 1, 15>>}}

\* the tables hold at most MaxFacts rows, no two alike.  The SELECT of
\* get_completion_history has no ORDER BY, so the order in which it returns
\* the rows is the store's choice: the order of the rows here stands for it,
\* and every order is drawn.
TableInputs ==
    {rows \in UNION {[1..k -> FactInputs] : k \in 0..MaxFacts} :
        \A i, j \in 1..Len(rows) : rows[i] = rows[j] => i = j}

\* habit "a" is stored under id 1; habit 2 was deleted
InitTrend ==
    /\ habits = (1 :> NewRow("a", "daily"))
    /\ completions \in TableInputs
    /\ seq = 2
    /\ today \in RefDates
    /\ ticks = 0
    /\ last = Call("init", "", "", FALSE)
    /\ obj = NoHabit
    /\ trend = NoTrend

Analyse_calculate_daily_trend(habit_name, num_days) ==
    /\ IF HistoryRaises(habits, completions, habit_name)
       THEN /\ last' = Call("calculate_daily_trend", habit_name, "ValueError", FALSE)
            /\ UNCHANGED trend
       ELSE /\ trend' = [num |-> num_days,
                         items |-> calculate_daily_trend(habits, completions, today,
                                                         habit_name, num_days)]
            /\ last' = Call("calculate_daily_trend", habit_name, "", FALSE)
    /\ UNCHANGED <<habits, completions, seq, today, ticks, obj>>

Analyse_calculate_monthly_trend(habit_name, num_months) ==
    /\ IF HistoryRaises(habits, completions, habit_name)
       THEN /\ last' = Call("calculate_monthly_trend", habit_name, "ValueError", FALSE)
            /\ UNCHANGED trend
       ELSE /\ trend' = [num |-> num_months,
                         items |-> calculate_monthly_trend(habits, completions, today,
                                                           habit_name, num_months)]
            /\ last' = Call("calculate_monthly_trend", habit_name, "", FALSE)
    /\ UNCHANGED <<habits, completions, seq, today, ticks, obj>>

Analyse_calculate_weekly_trend(habit_name, num_weeks) ==
    /\ IF HistoryRaises(habits, completions, habit_name)
       THEN /\ last' = Call("calculate_weekly_trend", habit_name, "ValueError", FALSE)
            /\ UNCHANGED trend
       ELSE /\ trend' = [num |-> num_weeks,
                         items |-> calculate_weekly_trend(habits, completions, today,
                                                          habit_name, num_weeks)]
            /\ last' = Call("calculate_weekly_trend", habit_name, "", FALSE)
    /\ UNCHANGED <<habits, completions, seq, today, ticks, obj>>

NextTrend ==
    \/ \E n \in Names, k \in 1..MaxWindow : Analyse_calculate_daily_trend(n, k)
    \/ \E n \in Names, k \in 0..MaxMonths : Analyse_calculate_monthly_trend(n, k)
    \/ \E n \in Names, k \in 0..MaxWeeks : Analyse_calculate_weekly_trend(n, k)

SpecTrend == InitTrend /\ [][NextTrend]_vars

----------------------------------------------------------------------------
(* Stored dates that are no dates: tables written by another program or    *)
(* by hand                                                                  *)

\* the text '2026-02-30', which date.fromisoformat refuses
Malformed == <<2026, 2, 30>>

\* rows of the stored habit, with a well-formed or a malformed date
CorruptFactInputs ==
    {[habit_id |-> 1, completion_date |-> t] :
        t \in {<<2026, 1, 14>>, <<2026, 1, 15>>, Malformed}}

CorruptTableInputs ==
    {rows \in UNION {[1..k -> CorruptFactInputs] : k \in 0..MaxFacts} :
        \A i, j \in 1..Len(rows) : rows[i] = rows[j] => i = j}

\* habit "a" is stored with streak 1; its last_completed is NULL, a date or
\* malformed text
InitCorrupt ==
    /\ \E t \in {NULL, <<2026, 1, 14>>, Malformed} :
          habits = (1 :> [NewRow("a", "daily") EXCEPT !.streak = 1,
                                                      !.longest_streak = 1,
                                                      !.last_completed = t])
    /\ completions \in CorruptTableInputs
    /\ seq = 1
    /\ today \in RefDates
    /\ ticks = 0
    /\ last = Call("init", "", "", FALSE)
    /\ obj = NoHabit
    /\ trend = NoTrend

\* tracker.get_completion_history(name)
Tracker_get_completion_history(name) ==
    /\ last' = Call("get_completion_history", name,
                    IF HistoryRaises(habits, completions, name) THEN "ValueError"
                    ELSE "", FALSE)
    /\ UNCHANGED <<habits, completions, seq, today, ticks, obj, trend>>

NextCorrupt ==
    \/ \E n \in Names : Tracker_get_habit(n)
    \/ \E n \in Names : record_completion(n)
    \/ \E n \in Names : Tracker_get_completion_history(n)
    \/ \E n \in Names, k \in 1..MaxWindow : Analyse_calculate_daily_trend(n, k)
    \/ \E n \in Names, k \in 0..MaxWeeks : Analyse_calculate_weekly_trend(n, k)
    \/ \E n \in Names, k \in 0..MaxMonths : Analyse_calculate_monthly_trend(n, k)

SpecCorrupt == InitCorrupt /\ [][NextCorrupt]_vars

----------------------------------------------------------------------------
(* Vocabulary of the properties *)

Valid == {"daily", "weekly", "monthly"}

\* the period length the specification gives each periodicity, in days
PeriodLength(p) ==
    CASE p = "daily" -> 1 [] p = "weekly" -> 7 [] p = "monthly" -> 30

\* the stored habit of that name, before and after a step
Stored(n) == get_habit(habits, n)
StoredNext(n) == get_habit(habits', n)

History(n) == get_completion_history(habits, completions, n)
HistoryNext(n) == get_completion_history(habits', completions', n)

Range(s) == {s[i] : i \in 1..Len(s)}

\* days since the last completion (meaningful when last_completed is set)
Gap(h) == today - h.last_completed

\* today - last_completed > period_length(periodicity)
IsLapse(h) ==
    h.last_completed # NoDate /\ h.periodicity \in Valid
    /\ Gap(h) > PeriodLength(h.periodicity)

\* last_completed set and today - last_completed < period_length(periodicity)
IsWithinPeriod(h) ==
    h.last_completed # NoDate /\ h.periodicity \in Valid
    /\ Gap(h) < PeriodLength(h.periodicity)

\* last_completed set and today - last_completed = period_length(periodicity)
IsBoundary(h) ==
    h.last_completed # NoDate /\ h.periodicity \in Valid
    /\ Gap(h) = PeriodLength(h.periodicity)

\* the step is a call of op on the stored habit n
Calls(op, n) == last'.op = op /\ last'.name = n /\ Exists(habits, n)

\* the last call was op on the stored habit n, and the day has not changed since
Called(op, n) == last.op = op /\ last.name = n /\ Exists(habits, n)

Max(a, b) == IF a > b THEN a ELSE b

\* no two rows of the completions table agree on (habit_id, completion_date)
UniqueFacts(rows) ==
    \A i, j \in 1..Len(rows) :
        rows[i].habit_id = rows[j].habit_id
        /\ rows[i].completion_date = rows[j].completion_date => i = j

\* no two rows of the habits table have the same name
UniqueNames(table) ==
    \A i, j \in DOMAIN table : table[i].name = table[j].name => i = j

\* the trend held was returned by op for the stored habit n
Returned(op, n) == last.op = op /\ last.name = n /\ Exists(habits, n)

\* year * 12 + month - 1 of a date, and the first day of the month so numbered
MonthIndex(d) == isoformat(d)[1] * 12 + isoformat(d)[2] - 1
MonthOfIndex(k) == fromisoformat(<<k \div 12, (k % 12) + 1, 1>>)

\* the sum of the values of a returned mapping
RECURSIVE SumValues(_)
SumValues(items) ==
    IF items = <<>> THEN 0 ELSE Head(items)[2] + SumValues(Tail(items))

TheHabits == {_habit_from_row(habits[id]) : id \in DOMAIN habits}

----------------------------------------------------------------------------
(* Properties *)

\* C1: every stored habit has longest_streak >= streak, in every state reached
\* through create_habit, record_completion, streak_reset, streak_save and
\* edit_habit (new_longest_streak included).
C1_LongestAtLeastStreak ==
    \A h \in TheHabits : h.longest_streak >= h.streak

\* C2: a record_completion called on a lapse (last_completed set and
\* today - last_completed > period length) leaves the streak at 1, not at the
\* old streak + 1.
C2_LapseRestartsStreak ==
    [][\A n \in Names :
          Calls("record_completion", n) /\ IsLapse(Stored(n))
          => StoredNext(n).streak = 1]_vars

\* C3: when last_completed is unset or today - last_completed >= period
\* length, record_completion raises streak by exactly 1, sets last_completed
\* to today, sets longest_streak to max(old longest_streak, new streak) and
\* today is in the completion history afterwards.
C3_RecordIncrements ==
    [][\A n \in Names :
          /\ Calls("record_completion", n)
          /\ \/ Stored(n).last_completed = NoDate
             \/ IsBoundary(Stored(n))
             \/ IsLapse(Stored(n))
          => /\ StoredNext(n).streak = Stored(n).streak + 1
             /\ StoredNext(n).last_completed = today
             /\ StoredNext(n).longest_streak
                  = Max(Stored(n).longest_streak, StoredNext(n).streak)
             /\ today \in Range(HistoryNext(n))]_vars

C3_Witness ==
    \E n \in Names :
        /\ Called("record_completion", n) /\ last.out = "updated"
        /\ Stored(n).streak = 2 /\ Stored(n).longest_streak = 2
        /\ Stored(n).last_completed = today
        /\ today \in Range(History(n))

\* C4: when last_completed is set and today - last_completed < period length,
\* record_completion leaves the stored habit record as it was: streak,
\* last_completed, longest_streak, streak_saves and periodicity.
C4_RefusedKeepsRecord ==
    [][\A n \in Names :
          Calls("record_completion", n) /\ IsWithinPeriod(Stored(n))
          => /\ StoredNext(n) = Stored(n)
             /\ habits' = habits]_vars

C4_Witness ==
    \E n \in Names :
        /\ Called("record_completion", n) /\ last.out = "already completed"
        /\ Stored(n).periodicity = "weekly"
        /\ Stored(n).last_completed = today - 1
        /\ Stored(n).streak = 1

\* C5: when the completion is already satisfied for the current period,
\* record_completion changes no state: the completion history is the same
\* before and after the call.
C5_RefusedKeepsHistory ==
    [][\A n \in Names :
          Calls("record_completion", n) /\ IsWithinPeriod(Stored(n))
          => HistoryNext(n) = History(n)]_vars

\* C6: a second record_completion on the same day changes nothing: streak,
\* last_completed, longest_streak and the history are as after the first
\* call, and the history holds exactly one fact for today.
C6_SecondRecordSameDay ==
    [][\A n \in Names :
          Called("record_completion", n) /\ Calls("record_completion", n)
          => /\ StoredNext(n).streak = Stored(n).streak
             /\ StoredNext(n).last_completed = Stored(n).last_completed
             /\ StoredNext(n).longest_streak = Stored(n).longest_streak
             /\ HistoryNext(n) = History(n)
             /\ Cardinality({i \in 1..Len(HistoryNext(n)) :
                               HistoryNext(n)[i] = today}) = 1]_vars

C6_Witness ==
    \E n \in Names :
        /\ Called("record_completion", n) /\ last.out = "already completed"
        /\ Stored(n).last_completed = today
        /\ Cardinality({i \in 1..Len(History(n)) : History(n)[i] = today}) = 1
        /\ Len(History(n)) = 2

\* C7: longest_streak of a habit never decreases in a step, unless the step is
\* an edit_habit that passes new_longest_streak.
C7_LongestMonotonic ==
    [][\/ last'.op = "edit_habit" /\ last'.given
       \/ \A id \in DOMAIN habits \cap DOMAIN habits' :
             habits'[id].longest_streak >= habits[id].longest_streak]_vars

C7_Witness ==
    \E n \in Names :
        /\ Called("edit_habit", n) /\ ~last.given /\ last.out = "updated"
        /\ Stored(n).longest_streak = 2 /\ Stored(n).streak = 0

\* C8: streak_reset sets streak to 0 exactly when last_completed is set and
\* today - last_completed > period length, leaves it as it was otherwise, and
\* never changes longest_streak, last_completed, streak_saves or periodicity.
C8_StreakReset ==
    [][\A n \in Names :
          /\ Calls("streak_reset", n)
          /\ Stored(n).last_completed = NoDate \/ Stored(n).periodicity \in Valid
          => /\ IsLapse(Stored(n)) => StoredNext(n).streak = 0
             /\ ~IsLapse(Stored(n)) => StoredNext(n).streak = Stored(n).streak
             /\ StoredNext(n) = [Stored(n) EXCEPT !.streak = StoredNext(n).streak]]_vars

C8_Witness ==
    \E n \in Names :
        /\ Called("streak_reset", n)
        /\ Stored(n).periodicity = "monthly"
        /\ Gap(Stored(n)) = 31
        /\ Stored(n).streak = 0 /\ Stored(n).longest_streak = 1

\* C9: when today - last_completed is exactly the period length, streak_reset
\* keeps the streak and record_completion raises it by 1.
C9_BoundaryAgrees ==
    [][\A n \in Names :
          /\ Calls("streak_reset", n) /\ IsBoundary(Stored(n))
             => StoredNext(n).streak = Stored(n).streak
          /\ Calls("record_completion", n) /\ IsBoundary(Stored(n))
             => StoredNext(n).streak = Stored(n).streak + 1]_vars

C9_Witness ==
    \E n \in Names :
        /\ Called("record_completion", n) /\ last.out = "updated"
        /\ Stored(n).periodicity = "monthly"
        /\ History(n) = <<today - 30, today>>
        /\ Stored(n).streak = 2

\* C10: on a lapse, streak_reset with update_habit followed by
\* record_completion on the same day is not refused and ends with streak 1,
\* last_completed today and longest_streak max(previous longest_streak, 1).
C10_ResetThenRecord ==
    [][\A n \in Names :
          /\ Called("streak_reset", n) /\ IsLapse(Stored(n))
          /\ Calls("record_completion", n)
          => /\ last'.out = "updated"
             /\ StoredNext(n).streak = 1
             /\ StoredNext(n).last_completed = today
             /\ StoredNext(n).longest_streak = Max(Stored(n).longest_streak, 1)]_vars

C10_Witness ==
    \E n \in Names :
        /\ Called("record_completion", n) /\ last.out = "updated"
        /\ Stored(n).streak = 1 /\ Stored(n).longest_streak = 2
        /\ Stored(n).last_completed = today
        /\ Len(History(n)) = 2

\* C11: Habit.streak_save with streak_saves > 0 lowers streak_saves by
\* exactly 1, sets last_completed to today and leaves streak, longest_streak
\* and the other fields as they were; with streak_saves = 0 it changes no
\* field of the habit.
C11_StreakSave ==
    [][last'.op = "Habit.streak_save"
       => IF obj.streak_saves > 0
          THEN obj' = [obj EXCEPT !.streak_saves = obj.streak_saves - 1,
                                      !.last_completed = today]
          ELSE obj' = obj]_vars

C11_Witness ==
    /\ last.op = "Habit.streak_save" /\ last.out = "saved"
    /\ obj.streak_saves = 1
    /\ obj.last_completed = today /\ today = 7
    /\ obj.streak = 1 /\ obj.longest_streak = 2

\* C12: after delete_habit(name) on a stored habit, no habit of that name is
\* stored and no completion fact that referenced the deleted habit remains
\* in the completions table.
C12_DeleteCascades ==
    [][\A n \in Names :
          Calls("delete_habit", n)
          => /\ ~Exists(habits', n)
             /\ \A i \in 1..Len(completions') :
                   completions'[i].habit_id # _get_habit_id(habits, n)]_vars

\* C13: the completions table holds at most one fact per (habit, date) pair
\* in every state (it starts empty), and a record_completion whose (habit,
\* today) fact is already present leaves the table as it was and returns
\* normally.
C13_OneFactPerDay ==
    [][/\ UniqueFacts(completions')
       /\ \A n \in Names :
             /\ Calls("record_completion", n)
             /\ IsLogged(completions, _get_habit_id(habits, n), isoformat(today))
             => /\ completions' = completions
                /\ last'.out \in {"updated", "already completed"}]_vars

C13_Witness ==
    /\ Called("record_completion", "a") /\ last.out = "already completed"
    /\ Exists(habits, "b")
    /\ completions = <<[habit_id |-> _get_habit_id(habits, "a"),
                        completion_date |-> isoformat(today)],
                       [habit_id |-> _get_habit_id(habits, "b"),
                        completion_date |-> isoformat(today)]>>
    /\ Stored("a").last_completed = today

\* C14: through create_habit, edit_habit(new_name) and delete_habit no two
\* stored habits ever share a name (the table starts empty), and create_habit
\* with a stored name adds no row, leaves the stored habit's fields as they
\* were and answers with the habit already stored.
C14_NamesUnique ==
    [][/\ UniqueNames(habits')
       /\ \A n \in Names :
             Calls("create_habit", n)
             => /\ habits' = habits
                /\ seq' = seq
                /\ last'.out = "already exists"
                /\ StoredNext(n) = Stored(n)]_vars

C14_Witness ==
    /\ Called("create_habit", "b") /\ last.out = "already exists"
    /\ Exists(habits, "a")
    /\ _get_habit_id(habits, "b") = 1
    /\ Stored("b").streak = 1 /\ Stored("b").periodicity = "weekly"

\* C15: edit_habit(name1, new_name=name2) with name2 the name of another
\* stored habit is refused: it returns no habit, and both habits are still
\* stored under their names with every field and their completion histories
\* as before.
C15_RenameCollision ==
    [][\A n, m \in Names :
          /\ n # m /\ Exists(habits, n) /\ Exists(habits, m)
          /\ edit_habit(n, m, "", <<>>)
          => /\ last'.out = "already exists"
             /\ Exists(habits', n) /\ Exists(habits', m)
             /\ StoredNext(n) = Stored(n) /\ StoredNext(m) = Stored(m)
             /\ HistoryNext(n) = History(n) /\ HistoryNext(m) = History(m)
             /\ habits' = habits /\ completions' = completions]_vars

C15_Witness ==
    /\ Called("edit_habit", "a") /\ last.out = "already exists"
    /\ Exists(habits, "b")
    /\ Stored("a").periodicity = "daily" /\ Stored("b").periodicity = "weekly"
    /\ History("a") = <<0, 1>> /\ History("b") = <<1>>

\* C16: a periodicity outside {daily, weekly, monthly} passed to
\* Habit.change_periodicity or to edit_habit(new_periodicity=...) changes
\* nothing: the periodicity and every other field keep their values; a
\* periodicity inside the set becomes the periodicity of the habit, the
\* other fields keeping their values.
C16_PeriodicityValidated ==
    [][\A p \in PeriodicityInputs :
          /\ Habit_change_periodicity(p)
             => obj' = IF p \in Valid THEN [obj EXCEPT !.periodicity = p] ELSE obj
          /\ \A n \in Names :
                Exists(habits, n) /\ edit_habit(n, "", p, <<>>)
                => /\ DOMAIN habits' = DOMAIN habits
                   /\ StoredNext(n) = IF p \in Valid
                                      THEN [Stored(n) EXCEPT !.periodicity = p]
                                      ELSE Stored(n)]_vars

C16_Witness ==
    /\ last.op = "Habit.change_periodicity" /\ last.out = "invalid"
    /\ obj.periodicity = "weekly" /\ obj.last_completed = today /\ today = 7
    /\ Stored("a").periodicity = "monthly" /\ Stored("a").streak_saves = 2

\* C17: through create_habit(name, periodicity) and edit_habit with any
\* periodicity arguments, every stored habit's periodicity is one of daily,
\* weekly, monthly.
C17_PeriodicityEnum ==
    \A h \in TheHabits : h.periodicity \in Valid

\* C18: for a stored habit and num_days = N >= 1, calculate_daily_trend
\* returns exactly N entries, keyed by the N consecutive dates ending today,
\* oldest first, each 1 if the date is in the habit's history and 0 if not.
C18_DailyTrend ==
    \A n \in Names :
        Returned("calculate_daily_trend", n) /\ trend.num >= 1
        => /\ Len(trend.items) = trend.num
           /\ \A i \in 1..trend.num :
                 LET day == today - trend.num + i
                 IN  trend.items[i]
                       = <<day, IF day \in Range(History(n)) THEN 1 ELSE 0>>

C18_Witness ==
    /\ Returned("calculate_daily_trend", "a")
    /\ today = fromisoformat(<<2026, 1, 15>>)
    /\ trend.items = <<<<today - 2, 0>>, <<today - 1, 1>>, <<today, 1>>>>
    /\ Len(completions) = 2

\* C19: for a stored habit and num_months >= 0, calculate_monthly_trend
\* returns exactly num_months + 1 entries, keyed by the first day of each
\* calendar month from num_months months before the month of today through
\* the month of today, in ascending key order; with an empty history every
\* value is 0.
C19_MonthlyEntries ==
    \A n \in Names :
        Returned("calculate_monthly_trend", n) /\ trend.num >= 0
        => /\ Len(trend.items) = trend.num + 1
           /\ \A i \in 1..Len(trend.items) :
                 trend.items[i][1]
                   = MonthOfIndex(MonthIndex(today) - trend.num + (i - 1))
           /\ \A i \in 1..(Len(trend.items) - 1) :
                 trend.items[i][1] < trend.items[i + 1][1]
           /\ History(n) = <<>>
              => \A i \in 1..Len(trend.items) : trend.items[i][2] = 0

C19_Witness ==
    /\ Returned("calculate_monthly_trend", "a")
    /\ today = fromisoformat(<<2026, 1, 15>>)
    /\ History("a") = <<>> /\ Len(completions) = 2
    /\ trend.items = <<<<fromisoformat(<<2025, 10, 1>>), 0>>,
                       <<fromisoformat(<<2025, 11, 1>>), 0>>,
                       <<fromisoformat(<<2025, 12, 1>>), 0>>,
                       <<fromisoformat(<<2026, 1, 1>>), 0>>>>

\* C20: in calculate_monthly_trend the value of each month key is the number
\* of history dates d of that calendar month with window start <= d <=
\* today, the window starting on the first day of the month num_months
\* before the month of today; a completion dated after today or before the
\* window start is not counted, and the values sum to the number of history
\* dates inside the window.
C20_MonthlyCounts ==
    \A n \in Names :
        Returned("calculate_monthly_trend", n) /\ trend.num >= 0
        => LET window_start == MonthOfIndex(MonthIndex(today) - trend.num)
               inside == {d \in Range(History(n)) : window_start <= d /\ d <= today}
           IN  /\ \A i \in 1..Len(trend.items) :
                     trend.items[i][2]
                       = Cardinality({d \in inside :
                                        MonthIndex(d) = MonthIndex(trend.items[i][1])})
               /\ SumValues(trend.items) = Cardinality(inside)

C20_Witness ==
    /\ Returned("calculate_monthly_trend", "a")
    /\ today = fromisoformat(<<2026, 1, 15>>)
    /\ History("a") = <<today + 1, today>>
    /\ trend.items = <<<<fromisoformat(<<2026, 1, 1>>), 1>>>>

\* C21: for a stored habit, calculate_weekly_trend returns exactly one entry
\* per week that holds a history date d with today - num_weeks weeks <= d <=
\* today, keyed by the Monday of that week, its value the number of such
\* dates in that week; no value is 0 and no other key appears.
C21_WeeklyTrend ==
    \A n \in Names :
        Returned("calculate_weekly_trend", n)
        => LET inside == {d \in Range(History(n)) :
                            today - 7 * trend.num <= d /\ d <= today}
               Monday(d) == CHOOSE m \in (d - 6)..d : weekday(m) = 0
               items == trend.items
           IN  /\ \A i, j \in 1..Len(items) : items[i][1] = items[j][1] => i = j
               /\ {items[i][1] : i \in 1..Len(items)} = {Monday(d) : d \in inside}
               /\ \A i \in 1..Len(items) :
                     /\ items[i][2] = Cardinality({d \in inside :
                                                     Monday(d) = items[i][1]})
                     /\ items[i][2] > 0

C21_Witness ==
    /\ Returned("calculate_weekly_trend", "a")
    /\ today = fromisoformat(<<2026, 1, 15>>) /\ trend.num = 2
    /\ History("a") = <<fromisoformat(<<2025, 12, 31>>), fromisoformat(<<2026, 1, 1>>)>>
    /\ trend.items = <<<<fromisoformat(<<2025, 12, 29>>), 1>>>>

\* C22: the mapping calculate_weekly_trend returns lists its week keys in
\* ascending date order, in whatever order the completions table returns the
\* habit's history.
C22_WeeklyAscending ==
    \A n \in Names :
        Returned("calculate_weekly_trend", n)
        => \A i \in 1..(Len(trend.items) - 1) :
              trend.items[i][1] < trend.items[i + 1][1]

\* C23: when the stored last_completed of a habit or a stored completion
\* date of it is malformed, get_habit, record_completion,
\* get_completion_history and the three trend calculations on that habit
\* still complete: none ends in an exception.
C23_MalformedNotFatal ==
    \A n \in Names :
        last.name = n /\ Exists(habits, n) => last.out # "ValueError"

\* C24: through record_completion and streak_save calls made on days that
\* never go back, every stored habit's last_completed is unset or not later
\* than today.
C24_NotInFuture ==
    \A h \in TheHabits : h.last_completed = NoDate \/ h.last_completed <= today

C24_Witness ==
    \E n \in Names :
        /\ Called("streak_save", n) /\ last.out = "no saves available"
        /\ Stored(n).last_completed = today - 7
        /\ Stored(n).streak = 1

\* C25: calculate_daily_trend, calculate_weekly_trend and
\* calculate_monthly_trend called with a name that is not stored return the
\* empty mapping, for every window size, and leave the tables as they were.
C25_UnknownHabit ==
    [][\A n \in Names :
          /\ last'.op \in {"calculate_daily_trend", "calculate_weekly_trend",
                           "calculate_monthly_trend"}
          /\ last'.name = n /\ ~Exists(habits, n)
          => /\ trend'.items = <<>>
             /\ UNCHANGED <<habits, completions, seq, today>>]_vars

C25_Witness ==
    /\ last.op = "calculate_daily_trend" /\ last.name = "b"
    /\ ~Exists(habits, "b")
    /\ trend = [num |-> 3, items |-> <<>>]
    /\ Len(completions) = 2
    /\ \A i \in 1..Len(completions) : completions[i].habit_id = 2

\* C26: create_habit with a name that is not stored stores the habit with the
\* periodicity given, streak 0, last_completed unset, streak_saves 0,
\* longest_streak 0 and an empty completion history.
C26_CreatedFresh ==
    [][\A n \in Names, p \in PeriodicityInputs :
          ~Exists(habits, n) /\ create_habit(n, p)
          => /\ Exists(habits', n)
             /\ StoredNext(n) = Habit(n, p, 0, NoDate, 0, 0)
             /\ HistoryNext(n) = <<>>]_vars

C26_Witness ==
    \E n \in Names :
        /\ Called("create_habit", n) /\ last.out = "created"
        /\ Stored(n) = Habit(n, "weekly", 0, NoDate, 0, 0)
        /\ _get_habit_id(habits, n) = 2
        /\ Len(completions) = 2 /\ History(n) = <<>>

\* C27: through create_habit, record_completion, streak_reset, edit_habit
\* without new_longest_streak and delete_habit, on days that never go back,
\* every stored habit's streak is at most the number of completion facts
\* stored for that habit.
C27_StreakAtMostFacts ==
    \A id \in DOMAIN habits :
        habits[id].streak
          <= Cardinality({i \in 1..Len(completions) : completions[i].habit_id = id})

C27_Witness ==
    \E n \in Names :
        /\ Called("record_completion", n) /\ last.out = "updated"
        /\ _get_habit_id(habits, n) = 2
        /\ Stored(n).streak = 2 /\ Len(History(n)) = 2
        /\ Len(completions) = 3

\* C28: no operation raises streak_saves: through create_habit,
\* record_completion, streak_reset, streak_save and edit_habit every stored
\* habit has streak_saves 0 (the table starts empty), so streak_save always
\* finds no save available and leaves last_completed as it was.
C28_NoSavesEver ==
    [][/\ \A id \in DOMAIN habits' : habits'[id].streak_saves = 0
       /\ \A n \in Names :
             Calls("streak_save", n)
             => /\ last'.out = "no saves available"
                /\ StoredNext(n).last_completed = Stored(n).last_completed]_vars

C28_Witness ==
    \E n \in Names :
        /\ Called("streak_save", n) /\ last.out = "no saves available"
        /\ Stored(n).streak_saves = 0
        /\ Stored(n).last_completed = today - 30
        /\ Stored(n).longest_streak = 2

\* C29: an edit_habit that succeeds in renaming a habit and/or changing its
\* periodicity keeps that habit's streak, last_completed, streak_saves and
\* longest_streak; the completion history read under the name it has after
\* the edit is the history read under the old name before it; every other
\* habit is as before.
C29_EditPreserves ==
    [][\A n \in Names :
          Calls("edit_habit", n) /\ last'.out = "updated" /\ ~last'.given
          => LET id == _get_habit_id(habits, n)
             IN  /\ DOMAIN habits' = DOMAIN habits
                 /\ habits'[id].streak = habits[id].streak
                 /\ habits'[id].last_completed = habits[id].last_completed
                 /\ habits'[id].streak_saves = habits[id].streak_saves
                 /\ habits'[id].longest_streak = habits[id].longest_streak
                 /\ get_completion_history(habits', completions', habits'[id].name)
                      = History(n)
                 /\ \A other \in DOMAIN habits \ {id} :
                       habits'[other] = habits[other]]_vars

C29_Witness ==
    /\ last.op = "edit_habit" /\ last.name = "a" /\ last.out = "updated"
    /\ ~Exists(habits, "a")
    /\ Stored("b").periodicity = "weekly" /\ Stored("b").streak = 1
    /\ Stored("b").last_completed = 0
    /\ History("b") = <<0, 1>>

\* C30: create_habit(name) right after delete_habit(name) gives a habit that
\* starts fresh: its completion history is empty and its streak and
\* longest_streak are 0, whatever completions the deleted habit had.
C30_RecreatedFresh ==
    [][\A n \in Names :
          /\ last.op = "delete_habit" /\ last.name = n /\ last.out = "deleted"
          /\ last'.op = "create_habit" /\ last'.name = n
          => /\ Exists(habits', n)
             /\ HistoryNext(n) = <<>>
             /\ StoredNext(n).streak = 0
             /\ StoredNext(n).longest_streak = 0]_vars

C30_Witness ==
    \E n \in Names :
        /\ Called("create_habit", n) /\ last.out = "created"
        /\ DOMAIN habits = {2}
        /\ completions = <<[habit_id |-> 1, completion_date |-> isoformat(today)]>>
        /\ History(n) = <<>>
        /\ Stored(n).streak = 0 /\ Stored(n).longest_streak = 0

====
